---- MODULE Spec2Model ----
(***************************************************************************)
(* A model of generate_slurm_script.py: the four frozen configuration      *)
(* records, their renderers (SlurmHeader.__str__, SrunCall.__str__,        *)
(* SrunCall.cpu_map_cmd, SingularityCall.full_args) and                    *)
(* generate_submission_script with its optional file write.                *)
(*                                                                         *)
(* Text representation.  A Python str is a sequence of pieces; a piece is  *)
(* a TLA+ string.  Pieces of configured values are single characters       *)
(* (<<"r","/">> is "r/"); a piece of template text is the literal text of  *)
(* the template between two substitutions.  A multi-line text is a         *)
(* sequence of lines, each line a str and each followed by a newline.      *)
(* A call's outcome is [status, value]: status "ok" with the returned      *)
(* value, or the name of the Python exception raised.                      *)
(***************************************************************************)
EXTENDS Integers, Sequences, FiniteSets, TLC

VARIABLES op, arg, ret, files

vars == <<op, arg, ret, files>>

\* ---------------------------------------------------------------- bounds
MaxSwitches == 1
MaxNodes == 2
MaxL3Cores == 3
MaxL3Size == 4
MaxNodeSize == 8

\* ------------------------------------------------------ outcomes of calls
Ok(v) == [status |-> "ok", value |-> v]
Raise(e) == [status |-> e, value |-> <<>>]
NoRet == [status |-> "none", value |-> <<>>]

\* ------------------------------------------------------- Python built-ins
Digit(d) ==
  CASE d = 0 -> "0" [] d = 1 -> "1" [] d = 2 -> "2" [] d = 3 -> "3"
    [] d = 4 -> "4" [] d = 5 -> "5" [] d = 6 -> "6" [] d = 7 -> "7"
    [] d = 8 -> "8" [] d = 9 -> "9"

RECURSIVE Digits(_)
Digits(n) ==
  IF n < 10 THEN <<Digit(n)>> ELSE Digits(n \div 10) \o <<Digit(n % 10)>>

\* f"{n}" of an int: decimal digits, a leading "-" when negative
IntToStr(n) == IF n < 0 THEN <<"-">> \o Digits(0 - n) ELSE Digits(n)

\* f"{t:02}": zero-filled to a width of two characters, sign included
Pad2(t) == IF 0 <= t /\ t < 10 THEN <<"0">> \o Digits(t) ELSE IntToStr(t)

\* int(b) of a bool
BoolToInt(b) == IF b THEN 1 ELSE 0

\* str.replace(old, new): leftmost, non-overlapping occurrences; old is not empty
RECURSIVE replace(_, _, _)
replace(s, old, new) ==
  IF Len(s) < Len(old) THEN s
  ELSE IF SubSeq(s, 1, Len(old)) = old
       THEN new \o replace(SubSeq(s, Len(old) + 1, Len(s)), old, new)
       ELSE <<Head(s)>> \o replace(Tail(s), old, new)

\* the character U+0060, which a TLA+ string cannot hold, as a piece of its own
BackQuote == "U+0060"

\* sep.join(parts)
RECURSIVE join(_, _)
join(sep, parts) ==
  IF parts = <<>> THEN <<>>
  ELSE IF Len(parts) = 1 THEN parts[1]
       ELSE parts[1] \o sep \o join(sep, Tail(parts))

\* s.endswith(" ")
endswith_space(s) == Len(s) > 0 /\ s[Len(s)] = " "

\* ------------------------------------------------------------ SlurmHeader
optionals ==
  << <<"switches">>, <<"distribution">>, <<"hint">>,
     <<"mail", "_", "user">>, <<"mail", "_", "type">> >>

flags == << <<"exclusive">>, <<"requeue">> >>

\* getattr(self, option) for the optional directives
header_getattr(h, option) ==
  CASE option = <<"switches">> -> h.switches
    [] option = <<"distribution">> -> h.distribution
    [] option = <<"hint">> -> h.hint
    [] option = <<"mail", "_", "user">> -> h.mail_user
    [] option = <<"mail", "_", "type">> -> h.mail_type

\* getattr(self, flag) for the flags
header_getflag(h, flag) ==
  CASE flag = <<"exclusive">> -> h.exclusive
    [] flag = <<"requeue">> -> h.requeue

\* a variant of field_default: switches compared against 0
field_default_zero(option) ==
  IF option = <<"switches">> THEN 0 ELSE <<>>

\* field.default of the dataclass field named option
field_default(option) ==
  IF option = <<"switches">> THEN 0 - 1 ELSE <<>>

\* f"{value}" of an optional directive: switches is an int, the others are str
format_value(option, value) ==
  IF option = <<"switches">> THEN IntToStr(value) ELSE value

\* the lines one optional directive adds to the header
optional_lines(h, option) ==
  IF header_getattr(h, option) # field_default(option)
  THEN << <<"#">>,
          <<"#SBATCH --">> \o replace(option, <<"_">>, <<"-">>) \o <<"=">>
             \o format_value(option, header_getattr(h, option)) >>
  ELSE <<>>

\* the lines one flag adds to the header
flag_lines(h, flag) ==
  IF header_getflag(h, flag)
  THEN << <<"#">>, <<"#SBATCH --">> \o flag >>
  ELSE <<>>

RECURSIVE all_optional_lines(_, _)
all_optional_lines(h, opts) ==
  IF opts = <<>> THEN <<>>
  ELSE optional_lines(h, Head(opts)) \o all_optional_lines(h, Tail(opts))

RECURSIVE all_flag_lines(_, _)
all_flag_lines(h, fs) ==
  IF fs = <<>> THEN <<>>
  ELSE flag_lines(h, Head(fs)) \o all_flag_lines(h, Tail(fs))

\* job_directory[:-1] when job_directory[-1] == "/"; job_directory is not empty
strip_slash(jd) ==
  IF jd[Len(jd)] = "/" THEN SubSeq(jd, 1, Len(jd) - 1) ELSE jd

\* the mandatory block of the header
mandatory_lines(h, job_directory) ==
  << <<"#">> \o h.bash_path,
     <<"#">>,
     <<"#SBATCH --account=">> \o h.account,
     <<"#SBATCH --partition=">> \o h.partition,
     <<"#SBATCH --qos=">> \o h.qos,
     <<"#">>,
     <<"#SBATCH --job-name=">> \o h.job_name,
     <<"#SBATCH --output=">> \o job_directory \o <<"/">> \o h.output,
     <<"#SBATCH --error=">> \o job_directory \o <<"/">> \o h.error,
     <<"#">>,
     <<"#SBATCH --nodes=">> \o IntToStr(h.nodes),
     <<"#SBATCH --ntasks-per-node=">> \o IntToStr(h.ntasks_per_node),
     <<"#">>,
     <<"#SBATCH --time=">>
        \o join(<<":">>, <<Pad2(h.time[1]), Pad2(h.time[2]), Pad2(h.time[3])>>) >>

\* SlurmHeader.__str__: job_directory[-1] of an empty str raises IndexError
SlurmHeader_str(h) ==
  IF Len(h.job_directory) = 0 THEN Raise("IndexError")
  ELSE Ok(mandatory_lines(h, strip_slash(h.job_directory))
          \o all_optional_lines(h, optionals)
          \o all_flag_lines(h, flags))

\* --------------------------------------------------------------- SrunCall
\* a variant of cpu_map_cmd: the cache size and the cores per cache exchanged
cpu_map_cmd_swapped(l3size, l3cores, nodesize) ==
  <<"$(python3 -c \"print(','.join(map(str,filter(lambda i: (i%">> \o l3cores
    \o <<")<">> \o l3size \o <<", range(">> \o nodesize \o <<")))))\")">>

\* SrunCall.cpu_map_cmd: the shell expression, in terms of its three str arguments
cpu_map_cmd(l3size, l3cores, nodesize) ==
  <<"$(python3 -c \"print(','.join(map(str,filter(lambda i: (i%">> \o l3size
    \o <<")<">> \o l3cores \o <<", range(">> \o nodesize \o <<")))))\")">>

\* the call self.cpu_map_cmd() with the declared default arguments
cpu_map_cmd_default ==
  cpu_map_cmd(<<"${L3SIZE}">>, <<"${L3CORES}">>, <<"${NODESIZE}">>)

\* any(val > 0 for val in cpu_map_vals)
any_positive(s) == s.l3cores > 0 \/ s.l3size > 0 \/ s.nodesize > 0

\* all(val > 0 for val in cpu_map_vals)
all_positive(s) == s.l3cores > 0 /\ s.l3size > 0 /\ s.nodesize > 0

\* the block added to string when the CPU map is set
cpu_map_lines(s) ==
  << <<>>,
     <<"# L3 cache is the lowest level of shared memory, with L3SIZE cores per cache">>,
     <<"# and NODESIZE/L3SIZE L3 caches per node. Using fewer than L3SIZE cores/L3">>,
     <<"# cache may improve strong scaling performance for memory bound applications.">>,
     <<"# The ntasks-per-node value must be equal to L3CORES*(NODESIZE/L3SIZE).">>,
     <<>>,
     <<"L3CORES=">> \o IntToStr(s.l3cores),
     <<"L3SIZE=">> \o IntToStr(s.l3size),
     <<"NODESIZE=">> \o IntToStr(s.nodesize),
     <<>>,
     <<"CPU_MAP=">> \o cpu_map_cmd_default >>

\* the block that is always added: the variables for the full srun call
srun_call_lines(args) ==
  << <<>>,
     <<"SRUN_ARGS=\"">> \o args \o <<"\"">>,
     <<"SRUN_CALL=\"srun ${SRUN_ARGS}\"">> >>

\* SrunCall.__str__
SrunCall_str(s) ==
  IF any_positive(s)
  THEN IF ~all_positive(s) THEN Raise("ValueError")
       ELSE Ok(cpu_map_lines(s)
               \o srun_call_lines(s.args \o <<" --cpu_bind=map_cpu:${CPU_MAP}">>))
  ELSE Ok(srun_call_lines(s.args))

\* -------------------------------------- the emitted CPU map, as the shell runs it
DigitVal(c) ==
  CASE c = "0" -> 0 [] c = "1" -> 1 [] c = "2" -> 2 [] c = "3" -> 3
    [] c = "4" -> 4 [] c = "5" -> 5 [] c = "6" -> 6 [] c = "7" -> 7
    [] c = "8" -> 8 [] c = "9" -> 9

\* the int a str of decimal digits denotes
RECURSIVE StrToInt(_)
StrToInt(str) ==
  IF Len(str) = 1 THEN DigitVal(str[1])
  ELSE 10 * StrToInt(SubSeq(str, 1, Len(str) - 1)) + DigitVal(str[Len(str)])

\* the value the emitted line NAME=<value> assigns to the shell variable NAME
shell_assigned(text, name) ==
  LET k == CHOOSE i \in 1..Len(text) :
             Len(text[i]) > 0 /\ text[i][1] = name \o "="
  IN Tail(text[k])

\* the shell's expansion of one operand of the expression: ${NAME} is the
\* value assigned to NAME above, anything else stands for itself
shell_expand(text, piece) ==
  CASE piece = "${L3SIZE}" -> shell_assigned(text, "L3SIZE")
    [] piece = "${L3CORES}" -> shell_assigned(text, "L3CORES")
    [] piece = "${NODESIZE}" -> shell_assigned(text, "NODESIZE")
    [] OTHER -> <<piece>>

\* filter(lambda i: (i%l3size)<l3cores, range(i, nodesize))
RECURSIVE filter_range(_, _, _, _)
filter_range(l3size, l3cores, i, nodesize) ==
  IF i >= nodesize THEN <<>>
  ELSE (IF (i % l3size) < l3cores THEN <<i>> ELSE <<>>)
       \o filter_range(l3size, l3cores, i + 1, nodesize)

\* the integers the emitted CPU_MAP expression selects: its three operands are
\* the pieces after "(i%", ")<" and ", range(" of the expression
cpu_map_selection(text) ==
  LET expr == shell_assigned(text, "CPU_MAP")
  IN filter_range(StrToInt(shell_expand(text, expr[2])),
                  StrToInt(shell_expand(text, expr[4])),
                  0,
                  StrToInt(shell_expand(text, expr[6])))

\* ','.join(map(str, ...)): the value of CPU_MAP
cpu_map_value(text) ==
  LET sel == cpu_map_selection(text)
  IN join(<<",">>, [k \in 1..Len(sel) |-> IntToStr(sel[k])])

\* -------------------------------------------------------- SingularityCall
\* the local variable args of full_args: not bound until first assigned
Unbound == [bound |-> FALSE, str |-> <<>>]
Bound(str) == [bound |-> TRUE, str |-> str]

\* SingularityCall.full_args: reading args before it is bound raises
\* UnboundLocalError
full_args(g) ==
  LET args1 == IF g.home # <<>> THEN Bound(<<"--home ">> \o g.home) ELSE Unbound
      sep == IF args1.str # <<>> /\ ~endswith_space(args1.str) THEN <<" ">> ELSE <<>>
      args2 == IF g.bind_from # <<>>
               THEN Bound(args1.str \o sep \o <<"--bind ">> \o g.bind_from)
               ELSE args1
      args3 == IF g.bind_to # <<>>
               THEN Bound(args2.str \o <<":">> \o g.bind_to)
               ELSE args2
  IN IF ~args1.bound THEN Raise("UnboundLocalError") ELSE Ok(args3.str)

\* ----------------------------------------------- generate_submission_script
\* a variant of resolve_file: %j is left as it is
resolve_file_no_job_id(header, name) ==
  replace(header.job_directory \o <<"/">> \o name,
          <<"%", "x">>, <<"${SLURM_JOB_NAME}">>)

\* f"{header.job_directory}/{name}" with %x and then %j replaced
resolve_file(header, name) ==
  replace(replace(header.job_directory \o <<"/">> \o name,
                  <<"%", "x">>, <<"${SLURM_JOB_NAME}">>),
          <<"%", "j">>, <<"${SLURM_JOB_ID}">>)

\* the template from its start to the line before {srun}
script_before_srun(header, python, singularity, singularity_args) ==
  << <<>>,
     <<"# exit on first error">>,
     <<"set -e">>,
     <<>>,
     <<"# print commands">>,
     <<"set -x">>,
     <<>>,
     <<"### === --- Unique identifier and directory">>,
     <<>>,
     <<"JOBCODE=${SLURM_JOB_NAME}-${SLURM_JOB_ID}">>,
     <<"JOBDIR=">> \o header.job_directory \o <<"/${JOBCODE}">>,
     <<"mkdir -p ${JOBDIR}">>,
     <<>>,
     <<"### === --- Python scripts and arguments">>,
     <<>>,
     <<"PYTHON_SCRIPT=">> \o python.script_name,
     <<"PYTHON_SCRIPT_DIR=">> \o python.script_dir,
     <<>>,
     <<"PYTHON_SCRIPT_ARGS=\"">> \o python.script_args \o <<"\"">>,
     <<>>,
     <<"### === --- Python executable">>,
     <<>>,
     <<"PYTHON_ARGS=\"">> \o python.args \o <<"\"">>,
     <<"PYTHON_EXEC=\"">> \o python.path \o <<"\"">>,
     <<>>,
     <<"PYTHON_CALL=\"${PYTHON_EXEC} ${PYTHON_ARGS}\"">>,
     <<>>,
     <<"### === --- Setup the environment for singularity">>,
     <<>>,
     <<"export SIFDIR=\"">> \o singularity.directory \o <<"\"">>,
     <<"CONTAINER=\"">> \o singularity.container \o <<"\"">>,
     <<>>,
     <<"SINGULARITY_ARGS=\"">> \o singularity_args \o <<"\"">>,
     <<"SINGULARITY_CALL=\"singularity run ${SINGULARITY_ARGS}\"">>,
     <<>>,
     <<"source ${SIFDIR}/">> \o singularity.setup_file,
     <<>>,
     <<"### === --- srun call">>,
     <<>> >>

\* the template from the end of the {srun} line to the OUTPUT_FILE copy-back
script_after_srun(srun, output_file) ==
  << <<>>,
     <<>>,
     <<"### === --- Print rank layout or not?">>,
     <<>>,
     <<"RUN_XTHI=">> \o IntToStr(BoolToInt(srun.xthi)),
     <<>>,
     <<"### === --- ------------------------------------------------ --- === ###">>,
     <<"### === --- Usually won't need to change anything below here --- === ###">>,
     <<"### === --- ------------------------------------------------ --- === ###">>,
     <<>>,
     <<"### === --- Some job info for debugging">>,
     <<>>,
     <<"set +x">>,
     <<"echo -e \"Job started at \" ", BackQuote, "date", BackQuote>>,
     <<"echo \"\"">>,
     <<>>,
     <<"echo \"What job is running?\"">>,
     <<"echo SLURM_JOB_ID          = $SLURM_JOB_ID">>,
     <<"echo SLURM_JOB_NAME        = $SLURM_JOB_NAME">>,
     <<"echo SLURM_JOB_ACCOUNT     = $SLURM_JOB_ACCOUNT">>,
     <<"echo \"\"">>,
     <<>>,
     <<"echo \"Where is the job running?\"">>,
     <<"echo SLURM_CLUSTER_NAME    = $SLURM_CLUSTER_NAME">>,
     <<"echo SLURM_JOB_PARTITION   = $SLURM_JOB_PARTITION">>,
     <<"echo SLURM_JOB_QOS         = $SLURM_JOB_QOS">>,
     <<"echo SLURM_SUBMIT_DIR      = $SLURM_SUBMIT_DIR">>,
     <<"echo \"\"">>,
     <<>>,
     <<"echo \"What are we running on?\"">>,
     <<"echo SLURM_DISTRIBUTION    = $SLURM_DISTRIBUTION">>,
     <<"echo SLURM_NTASKS          = $SLURM_NTASKS">>,
     <<"echo SLURM_NTASKS_PER_NODE = $SLURM_NTASKS_PER_NODE">>,
     <<"echo SLURM_JOB_NUM_NODES   = $SLURM_JOB_NUM_NODES">>,
     <<"echo SLURM_JOB_NODELIST    = $SLURM_JOB_NODELIST">>,
     <<"echo \"\"">>,
     <<"set -x">>,
     <<>>,
     <<"### === --- Check the rank layout">>,
     <<>>,
     <<"if [[ ${RUN_XTHI} -gt 0 ]]; then">>,
     <<"   export MPICH_ENV_DISPLAY=1">>,
     <<"   set +x">>,
     <<"   echo module load xthi">>,
     <<"   module load xthi">>,
     <<"   set -x">>,
     <<"   echo -e \"xthi started at \" ", BackQuote, "date", BackQuote>>,
     <<"   $SRUN_CALL xthi > ${JOBDIR}/xthi.log 2>&1">>,
     <<"   echo -e \"xthi finished at \" ", BackQuote, "date", BackQuote>>,
     <<"   unset MPICH_ENV_DISPLAY">>,
     <<"fi">>,
     <<>>,
     <<"### === --- Copy files to nodes">>,
     <<>>,
     <<"echo -e \"Start copying files to nodes: \" ", BackQuote, "date", BackQuote>>,
     <<"echo -e \"\"">>,
     <<>>,
     <<"TMP_SCRIPT=${JOBDIR}/${JOBCODE}-${PYTHON_SCRIPT}">>,
     <<>>,
     <<"cp ${PYTHON_SCRIPT_DIR}/${PYTHON_SCRIPT} ${TMP_SCRIPT}">>,
     <<>>,
     <<"sbcast --compress=none ${SIFDIR}/${CONTAINER} /tmp/${CONTAINER}">>,
     <<>>,
     <<"### === --- Run the script">>,
     <<>>,
     <<"set +x">>,
     <<"echo -e \"Script start time: \" ", BackQuote, "date", BackQuote>>,
     <<"echo -e \"\"">>,
     <<>>,
     <<"set -x">>,
     <<"${SRUN_CALL} ${SINGULARITY_CALL} /tmp/${CONTAINER} \\ ">>,
     <<"    ${PYTHON_CALL} ${TMP_SCRIPT} ${PYTHON_SCRIPT_ARGS}">>,
     <<>>,
     <<"echo -e \"Script end time: \" ", BackQuote, "date", BackQuote>>,
     <<>>,
     <<"OUTPUT_FILE=">> \o output_file,
     <<"cp ${OUTPUT_FILE} ${JOBDIR}/${OUTPUT_FILE}">> >>

\* the block appended when error_file != output_file
error_file_lines(error_file) ==
  << <<>>,
     <<"ERROR_FILE=">> \o error_file,
     <<"cp ${ERROR_FILE} ${JOBDIR}/${ERROR_FILE}">> >>

\* the text generate_submission_script composes, or the first exception raised:
\* str(header) is evaluated first, then the f-string's fields in order, with
\* singularity.full_args() before {srun}
compose_script(header, python, srun, singularity) ==
  LET output_file == resolve_file(header, header.output)
      error_file == resolve_file(header, header.error)
      h == SlurmHeader_str(header)
      a == full_args(singularity)
      s == SrunCall_str(srun)
  IN IF h.status # "ok" THEN Raise(h.status)
     ELSE IF a.status # "ok" THEN Raise(a.status)
     ELSE IF s.status # "ok" THEN Raise(s.status)
     ELSE Ok(h.value
             \o script_before_srun(header, python, singularity, a.value)
             \o s.value
             \o script_after_srun(srun, output_file)
             \o (IF error_file # output_file
                 THEN error_file_lines(error_file) ELSE <<>>))

\* ------------------------------------------------------------ file system
Paths == {"a.sh", "b.sh"}

Absent == [exists |-> FALSE, text |-> <<>>]
File(text) == [exists |-> TRUE, text |-> text]

\* a script_name argument: None, or a str
None == [none |-> TRUE, name |-> ""]
Name(n) == [none |-> FALSE, name |-> n]

\* "if script_name:": None and the empty str are falsy
truthy(script_name) == ~script_name.none /\ script_name.name # ""

\* a variant of open_and_write: the file opened in mode "a"
open_and_append(fs, script_name, script) ==
  [fs EXCEPT ![script_name.name] = File(fs[script_name.name].text \o script)]

\* with open(script_name, "w") as f: f.write(script)
open_and_write(fs, script_name, script) ==
  [fs EXCEPT ![script_name.name] = File(script)]

\* a variant of files_after_call: the file opened (and so truncated) before the
\* script is composed
files_after_open_first(fs, script_name, outcome) ==
  IF truthy(script_name)
  THEN [fs EXCEPT ![script_name.name] =
          IF outcome.status = "ok" THEN File(outcome.value) ELSE File(<<>>)]
  ELSE fs

\* the file system after a call: the script is composed before the file is
\* opened, so a call that raises leaves every file as it was
files_after_call(fs, script_name, outcome) ==
  IF outcome.status = "ok" /\ truthy(script_name)
  THEN open_and_write(fs, script_name, outcome.value)
  ELSE fs

\* generate_submission_script called with the file system fs: what it returns
\* or raises, and the file system it leaves
generate_submission_script(fs, header, python, srun, singularity, script_name) ==
  LET outcome == compose_script(header, python, srun, singularity)
  IN [ret |-> outcome, files |-> files_after_call(fs, script_name, outcome)]

\* ----------------------------------------------------------------- inputs
EmptyStr == <<>>
results == <<"r", "e", "s", "u", "l", "t", "s">>
results_slash == results \o <<"/">>
default_output == <<"s", "l", "u", "r", "m", "-", "%", "x", "-", "%", "j", ".", "o", "u", "t">>
error_pattern == <<"s", "l", "u", "r", "m", "-", "%", "x", "-", "%", "j", ".", "e", "r", "r">>
\* two patterns that differ as written and resolve to the same path
name_pattern == <<"%", "x", ".", "o", "u", "t">>
name_resolved == <<"${SLURM_JOB_NAME}">> \o <<".", "o", "u", "t">>
\* a pattern in which a % precedes a placeholder, and one with %j before %x
percent_pattern == <<"%", "%", "x", "j", "%", "j">>
swapped_pattern == <<"%", "j", "%", "x">>
block_block == <<"b", "l", "o", "c", "k", ":", "b", "l", "o", "c", "k">>
nomultithread == <<"n", "o", "m", "u", "l", "t", "i", "t", "h", "r", "e", "a", "d">>

\* SlurmHeader(...): the fields a caller sets; partition, qos and bash_path
\* keep their declared defaults
SlurmHeader(job_directory, output, error, nodes, switches, distribution, hint, mail_user, mail_type, exclusive, requeue) ==
  [account |-> <<"e", "7", "8", "1">>,
   partition |-> <<"s", "t", "a", "n", "d", "a", "r", "d">>,
   qos |-> <<"s", "t", "a", "n", "d", "a", "r", "d">>,
   job_name |-> <<"t", "e", "s", "t", "_", "j", "o", "b">>,
   output |-> output,
   error |-> error,
   nodes |-> nodes,
   ntasks_per_node |-> 2,
   time |-> <<0, 5, 0>>,
   switches |-> switches,
   distribution |-> distribution,
   hint |-> hint,
   exclusive |-> exclusive,
   requeue |-> requeue,
   mail_user |-> mail_user,
   mail_type |-> mail_type,
   bash_path |-> <<"!", "/", "b", "i", "n", "/", "b", "a", "s", "h">>,
   job_directory |-> job_directory]

PythonCall ==
  [path |-> <<"p", "y", "t", "h", "o", "n">>,
   args |-> EmptyStr,
   script_name |-> <<"s", "c", "r", "i", "p", "t", ".", "p", "y">>,
   script_dir |-> <<"e", "x", "a", "m", "p", "l", "e", "s">>,
   script_args |-> EmptyStr]

SrunCall(l3cores, l3size, nodesize, args, xthi) ==
  [l3cores |-> l3cores, l3size |-> l3size, nodesize |-> nodesize,
   args |-> args, xthi |-> xthi]

SingularityCall(home, bind_from, bind_to) ==
  [container |-> <<"f", ".", "s", "i", "f">>,
   args |-> EmptyStr,
   bind_from |-> bind_from,
   bind_to |-> bind_to,
   home |-> home,
   directory |-> <<"/", "w", "o", "r", "k">>,
   setup_file |-> <<"s", "e", "t", "u", "p", ".", "s", "h">>]

JobDirectories == {EmptyStr, results, results_slash}

\* the headers rendered on their own
RenderHeaders ==
  { SlurmHeader(jd, default_output, default_output, n, sw, di, hi, mu, mt, ex, rq) :
      jd \in JobDirectories, n \in 1..MaxNodes, sw \in (0 - 1)..MaxSwitches,
      di \in {EmptyStr, block_block}, hi \in {EmptyStr, nomultithread},
      mu \in {EmptyStr, <<"u">>}, mt \in {EmptyStr, <<"E", "N", "D">>},
      ex \in BOOLEAN, rq \in BOOLEAN }

\* the launch wrappers rendered on their own
RenderSruns ==
  { SrunCall(c, z, n, a, x) :
      c \in (0 - 1)..MaxL3Cores, z \in (0 - 1)..MaxL3Size,
      n \in (0 - 1)..MaxNodeSize, a \in {EmptyStr, <<"-", "x">>}, x \in BOOLEAN }

\* the container wrappers whose arguments are built on their own
RenderSingularities ==
  { SingularityCall(h, f, t) :
      h \in {EmptyStr, <<"h">>, <<"h", " ">>},
      f \in {EmptyStr, <<"b">>}, t \in {EmptyStr, <<"t">>} }

\* the (output, error) pairs of the headers given to generate_submission_script
OutputErrorPairs ==
  { <<default_output, default_output>>, <<default_output, error_pattern>>,
    <<name_pattern, name_resolved>>, <<percent_pattern, swapped_pattern>> }

\* the headers given to generate_submission_script: every (output, error)
\* pair under "results" ...
PatternHeaders ==
  { SlurmHeader(results, oe[1], oe[2], 1, 0 - 1, block_block, EmptyStr, EmptyStr, EmptyStr, TRUE, FALSE) :
      oe \in OutputErrorPairs }

\* ... and every job directory: empty, plain and slash-terminated
DirectoryHeaders ==
  { SlurmHeader(jd, default_output, error_pattern, 1, 0 - 1, block_block, EmptyStr, EmptyStr, EmptyStr, TRUE, FALSE) :
      jd \in JobDirectories }

\* the affinity triple unset, set, and partially set
SrunUnset == SrunCall(0 - 1, 0 - 1, 0 - 1, EmptyStr, FALSE)
GenerateSruns ==
  { SrunUnset,
    SrunCall(2, 4, 8, <<"-", "x">>, TRUE),
    SrunCall(0 - 1, 4, 0 - 1, EmptyStr, FALSE) }

\* home, bind_from and bind_to at their defaults, and all three set
SingularitySet == SingularityCall(<<"h">>, <<"b">>, <<"t">>)
GenerateSingularities ==
  { SingularityCall(EmptyStr, EmptyStr, EmptyStr), SingularitySet }

\* the (header, srun, singularity) triples generate_submission_script is called
\* with: the patterns with the other two renderers succeeding, and every job
\* directory with every launch and container wrapper
GenerateCalls ==
  { <<h, SrunUnset, SingularitySet>> : h \in PatternHeaders }
  \cup (DirectoryHeaders \X GenerateSruns \X GenerateSingularities)

ScriptNames == {None, Name(""), Name("a.sh")}

\* a file that exists before the first call
OldFile == File(<< <<"o", "l", "d">> >>)

\* ---------------------------------------------------------- state machine
\* op: the operation last called; arg: its arguments; ret: its outcome;
\* files: the file system

TypeOK ==
  /\ op \in {"new", "init", "SlurmHeader.__str__", "SrunCall.__str__",
             "SingularityCall.full_args", "generate_submission_script"}
  /\ ret.status \in {"none", "ok", "IndexError", "UnboundLocalError", "ValueError"}
  /\ DOMAIN files = Paths

\* --- the composer and the file system
Init ==
  /\ op = "init"
  /\ arg = <<>>
  /\ ret = NoRet
  /\ files \in {[p \in Paths |-> IF p = "a.sh" THEN f ELSE OldFile] :
                  f \in {Absent, OldFile}}

Generate ==
  \E c \in GenerateCalls, script_name \in ScriptNames :
    LET header == c[1]
        srun == c[2]
        singularity == c[3]
        call == generate_submission_script(files, header, PythonCall, srun,
                                           singularity, script_name)
    IN /\ op' = "generate_submission_script"
       /\ arg' = [header |-> header, python |-> PythonCall, srun |-> srun,
                  singularity |-> singularity, script_name |-> script_name]
       /\ ret' = call.ret
       /\ files' = call.files

Next == Generate

Spec == Init /\ [][Next]_vars

\* --- the renderers, each called on its own
RenderInit ==
  /\ op = "new"
  /\ arg \in ({[class |-> "SlurmHeader", self |-> h] : h \in RenderHeaders}
              \cup {[class |-> "SrunCall", self |-> s] : s \in RenderSruns}
              \cup {[class |-> "SingularityCall", self |-> g] :
                      g \in RenderSingularities})
  /\ ret = NoRet
  /\ files = [p \in Paths |-> Absent]

HeaderStr ==
  /\ op = "new" /\ arg.class = "SlurmHeader"
  /\ op' = "SlurmHeader.__str__"
  /\ ret' = SlurmHeader_str(arg.self)
  /\ UNCHANGED <<arg, files>>

SrunStr ==
  /\ op = "new" /\ arg.class = "SrunCall"
  /\ op' = "SrunCall.__str__"
  /\ ret' = SrunCall_str(arg.self)
  /\ UNCHANGED <<arg, files>>

FullArgs ==
  /\ op = "new" /\ arg.class = "SingularityCall"
  /\ op' = "SingularityCall.full_args"
  /\ ret' = full_args(arg.self)
  /\ UNCHANGED <<arg, files>>

RenderNext == HeaderStr \/ SrunStr \/ FullArgs

RenderSpec == RenderInit /\ [][RenderNext]_vars

\* ================================================================= claims
has_line(text, line) == \E i \in 1..Len(text) : text[i] = line

\* some line of text begins with the piece first
has_line_from(text, first) ==
  \E i \in 1..Len(text) : Len(text[i]) > 0 /\ text[i][1] = first

\* some line of text begins with the pieces of prefix
has_line_with_prefix(text, prefix) ==
  \E i \in 1..Len(text) :
    Len(text[i]) >= Len(prefix) /\ SubSeq(text[i], 1, Len(prefix)) = prefix

Generated == op = "generate_submission_script"

\* the affinity triple is partially set: some value positive, not all of them
PartialTriple(s) ==
  /\ \E v \in {s.l3cores, s.l3size, s.nodesize} : v > 0
  /\ \E v \in {s.l3cores, s.l3size, s.nodesize} : v <= 0

\* --- C1
\* C1: with a valid affinity triple (all three <= 0 or all three > 0)
\* generate_submission_script completes without error, whatever the header and
\* the container configuration, the default job_directory "" and the default
\* home, bind_from, bind_to included.
C1_OnlyAffinityValidationFails ==
  (Generated /\ ~PartialTriple(arg.srun)) => ret.status = "ok"

\* --- C2
\* C2: generate_submission_script fails with the "Must set all of
\* l3cores,l3size,nodesize" ValueError if and only if the affinity triple is
\* partially set, and succeeds otherwise.
C2_GenerateFailsIffPartialTriple ==
  Generated =>
    /\ ret.status = "ValueError" <=> PartialTriple(arg.srun)
    /\ ~PartialTriple(arg.srun) => ret.status = "ok"

\* The launch wrapper's own part of C2: SrunCall.__str__ raises ValueError
\* exactly on a partial triple; with no value positive it emits no L3CORES,
\* L3SIZE, NODESIZE or CPU_MAP assignment and SRUN_ARGS holds the configured
\* arguments alone, and with all three positive it emits the assignments and
\* appends the --cpu_bind option.
SrunStrFailsIffPartialTriple ==
  op = "SrunCall.__str__" =>
    LET s == arg.self
        assigns(name) == has_line_from(ret.value, name)
    IN /\ ret.status = "ValueError" <=> PartialTriple(s)
       /\ ~PartialTriple(s) => ret.status = "ok"
       /\ (ret.status = "ok" /\ s.l3cores <= 0) =>
            /\ ~assigns("L3CORES=") /\ ~assigns("L3SIZE=")
            /\ ~assigns("NODESIZE=") /\ ~assigns("CPU_MAP=")
            /\ has_line(ret.value, <<"SRUN_ARGS=\"">> \o s.args \o <<"\"">>)
       /\ (ret.status = "ok" /\ s.l3cores > 0) =>
            /\ has_line(ret.value, <<"L3CORES=">> \o IntToStr(s.l3cores))
            /\ has_line(ret.value, <<"L3SIZE=">> \o IntToStr(s.l3size))
            /\ has_line(ret.value, <<"NODESIZE=">> \o IntToStr(s.nodesize))
            /\ assigns("CPU_MAP=")
            /\ has_line(ret.value,
                        <<"SRUN_ARGS=\"">> \o s.args
                          \o <<" --cpu_bind=map_cpu:${CPU_MAP}", "\"">>)

\* --- C3
\* C3: generate_submission_script with job_directory "results/" produces the
\* output it produces with job_directory "results", all other fields equal.
C3_TrailingSlashSameOutput ==
  (Generated /\ arg.header.job_directory = results_slash) =>
    ret = generate_submission_script(
            files, [arg.header EXCEPT !.job_directory = results],
            arg.python, arg.srun, arg.singularity, arg.script_name).ret

\* --- C4
\* the arguments string as the specification builds it: the accumulator starts
\* as the empty string
accumulated_args(g) ==
  LET a1 == IF g.home # <<>> THEN <<"--home ">> \o g.home ELSE <<>>
      a2 == IF g.bind_from # <<>>
            THEN a1 \o (IF a1 # <<>> /\ a1[Len(a1)] # " " THEN <<" ">> ELSE <<>>)
                    \o <<"--bind ">> \o g.bind_from
            ELSE a1
  IN IF g.bind_to # <<>> THEN a2 \o <<":">> \o g.bind_to ELSE a2

\* C4: for every combination of home, bind_from and bind_to set or empty,
\* full_args returns the string accumulated from the empty string: --home
\* <home>, then --bind <bind_from> after a separating space where one is
\* needed, then :<bind_to>; with home unset the result is still defined.
C4_FullArgsAccumulatesFromEmpty ==
  op = "SingularityCall.full_args" => ret = Ok(accumulated_args(arg.self))

\* --- C5
\* the rendered header holds the line "#SBATCH --<name>=<value>"
directive_line(text, name, value) ==
  has_line(text, <<"#SBATCH --">> \o name \o <<"=">> \o value)

\* C5: in a rendered header each optional directive's line "#SBATCH
\* --<name with hyphens>=<value>" appears if and only if the configured value
\* differs from the declared default (switches -1, the others the empty
\* string).
C5_OptionalDirectiveIffNotDefault ==
  (op = "SlurmHeader.__str__" /\ ret.status = "ok") =>
    LET h == arg.self
        t == ret.value
    IN /\ directive_line(t, <<"switches">>, IntToStr(h.switches))
            <=> h.switches # 0 - 1
       /\ directive_line(t, <<"distribution">>, h.distribution)
            <=> h.distribution # <<>>
       /\ directive_line(t, <<"hint">>, h.hint) <=> h.hint # <<>>
       /\ directive_line(t, <<"mail", "-", "user">>, h.mail_user)
            <=> h.mail_user # <<>>
       /\ directive_line(t, <<"mail", "-", "type">>, h.mail_type)
            <=> h.mail_type # <<>>

\* a header rendered with distribution "block:block" and the default hint:
\* the one line is there and the other is not
C5_Witness ==
  /\ op = "SlurmHeader.__str__" /\ ret.status = "ok"
  /\ arg.self.distribution = block_block /\ arg.self.hint = <<>>
  /\ arg.self.switches = 0
  /\ has_line(ret.value, <<"#SBATCH --", "distribution", "=">> \o block_block)
  /\ has_line(ret.value, <<"#SBATCH --", "switches", "=", "0">>)
  /\ ~has_line_with_prefix(ret.value, <<"#SBATCH --", "hint">>)

\* --- C6
\* a path with every %x and every %j replaced, in one pass from the left
RECURSIVE substituted(_)
substituted(path) ==
  IF path = <<>> THEN <<>>
  ELSE IF Len(path) >= 2 /\ path[1] = "%" /\ path[2] = "x"
       THEN <<"${SLURM_JOB_NAME}">> \o substituted(SubSeq(path, 3, Len(path)))
       ELSE IF Len(path) >= 2 /\ path[1] = "%" /\ path[2] = "j"
            THEN <<"${SLURM_JOB_ID}">> \o substituted(SubSeq(path, 3, Len(path)))
            ELSE <<path[1]>> \o substituted(Tail(path))

\* C6: in a generated script OUTPUT_FILE is <job_directory>/<output> and
\* ERROR_FILE is <job_directory>/<error>, each with every %x replaced by
\* ${SLURM_JOB_NAME} and every %j by ${SLURM_JOB_ID}; the OUTPUT_FILE copy-back
\* block is always there, and the ERROR_FILE block is there if and only if the
\* two resolved paths differ.  With job_directory "results" and output
\* "slurm-%x-%j.out" the output path is
\* results/slurm-${SLURM_JOB_NAME}-${SLURM_JOB_ID}.out.
C6_ResolvedPathsAndCopyBack ==
  (Generated /\ ret.status = "ok") =>
    LET h == arg.header
        out == substituted(h.job_directory \o <<"/">> \o h.output)
        err == substituted(h.job_directory \o <<"/">> \o h.error)
    IN /\ has_line(ret.value, <<"OUTPUT_FILE=">> \o out)
       /\ has_line(ret.value, <<"cp ${OUTPUT_FILE} ${JOBDIR}/${OUTPUT_FILE}">>)
       /\ err # out =>
            /\ has_line(ret.value, <<"ERROR_FILE=">> \o err)
            /\ has_line(ret.value, <<"cp ${ERROR_FILE} ${JOBDIR}/${ERROR_FILE}">>)
       /\ err = out =>
            /\ ~has_line_from(ret.value, "ERROR_FILE=")
            /\ ~has_line(ret.value, <<"cp ${ERROR_FILE} ${JOBDIR}/${ERROR_FILE}">>)
       /\ (h.job_directory = results /\ h.output = default_output) =>
            has_line(ret.value,
                     <<"OUTPUT_FILE=">> \o results
                       \o <<"/", "s", "l", "u", "r", "m", "-", "${SLURM_JOB_NAME}",
                            "-", "${SLURM_JOB_ID}", ".", "o", "u", "t">>)

\* a script generated from error and output patterns that differ as written
\* and resolve to one path: no ERROR_FILE block
C6_Witness ==
  /\ Generated /\ ret.status = "ok"
  /\ arg.header.output = name_pattern /\ arg.header.error = name_resolved
  /\ has_line(ret.value, <<"OUTPUT_FILE=">> \o results \o <<"/">> \o name_resolved)
  /\ ~has_line_from(ret.value, "ERROR_FILE=")

\* --- C7
\* C7: for a valid affinity triple the emitted CPU_MAP expression, evaluated
\* over the emitted L3CORES, L3SIZE and NODESIZE, selects exactly the i in
\* [0, nodesize) with i mod l3size < l3cores, in increasing order; its operands
\* are the shell variables ${L3SIZE}, ${L3CORES} and ${NODESIZE}, not numbers;
\* for (2, 4, 8) the comma-joined value is 0,1,4,5.
C7_CpuMapSelection ==
  (op = "SrunCall.__str__" /\ all_positive(arg.self)) =>
    /\ ret.status = "ok"
    /\ LET s == arg.self
           sel == cpu_map_selection(ret.value)
           expr == shell_assigned(ret.value, "CPU_MAP")
       IN /\ {sel[k] : k \in 1..Len(sel)}
               = {i \in 0..(s.nodesize - 1) : i % s.l3size < s.l3cores}
          /\ \A k \in 1..Len(sel) : \A l \in 1..Len(sel) : k < l => sel[k] < sel[l]
          /\ expr[2] = "${L3SIZE}" /\ expr[4] = "${L3CORES}"
          /\ expr[6] = "${NODESIZE}"
          /\ \A k \in 1..Len(expr) : expr[k] \notin {Digit(d) : d \in 0..9}
          /\ (s.l3cores = 2 /\ s.l3size = 4 /\ s.nodesize = 8) =>
               cpu_map_value(ret.value) = <<"0", ",", "1", ",", "4", ",", "5">>

\* the launch wrapper rendered for the triple (2, 4, 8)
C7_Witness ==
  /\ op = "SrunCall.__str__" /\ ret.status = "ok"
  /\ arg.self.l3cores = 2 /\ arg.self.l3size = 4 /\ arg.self.nodesize = 8
  /\ cpu_map_selection(ret.value) = <<0, 1, 4, 5>>

\* --- C8
\* C8: a successful call returns the full composed text, with or without a
\* target path; with a path the file at that path then holds exactly the
\* returned text, whatever it held before, and no other file changes; without
\* a path no file changes.
C8_ReturnsTextAndOverwrites ==
  [][ Generated' =>
        /\ ~truthy(arg'.script_name) => files' = files
        /\ ret'.status = "ok" =>
             /\ ret'.value[1] = <<"#">> \o arg'.header.bash_path
             /\ has_line(ret'.value,
                         <<"cp ${OUTPUT_FILE} ${JOBDIR}/${OUTPUT_FILE}">>)
             /\ truthy(arg'.script_name) =>
                  /\ files'[arg'.script_name.name] = File(ret'.value)
                  /\ \A p \in Paths \ {arg'.script_name.name} :
                       files'[p] = files[p] ]_vars

\* a script returned and written to a.sh
C8_Witness ==
  /\ Generated /\ ret.status = "ok" /\ arg.script_name = Name("a.sh")
  /\ files["a.sh"] = File(ret.value)
  /\ files["b.sh"] = OldFile

\* --- C9
\* C9 (byte-identical output of two calls with identical configuration) compares
\* two runs of the program.  compose_script is an operator of the four records
\* alone, so a formula for it would compare two evaluations of one operator.

\* --- C10
\* C10: a call that fails leaves every file as it was: the file at the target
\* path is neither created nor modified.
C10_FailureLeavesFiles ==
  [][ (Generated' /\ ret'.status # "ok") => files' = files ]_vars

\* a call with a target path has failed on the affinity triple, and the script
\* an earlier call wrote to that path is still there
C10_Witness ==
  /\ Generated /\ ret.status = "ValueError" /\ arg.script_name = Name("a.sh")
  /\ files["a.sh"].exists /\ files["a.sh"] # OldFile
  /\ Len(files["a.sh"].text) > 0

====
